---- MODULE Spec2Model ----
(***************************************************************************)
(* A model of the test generator library (test-generator/src/lib.rs):      *)
(* generate_tests, traverse, TestGenerator::generate_test_file,            *)
(* normalize_path and write_mod_entry, together with the sample generator  *)
(* of test-generator/src/test/generate_tests.rs.                           *)
(*                                                                         *)
(* Paths and identifiers are sequences of one-character strings, so that   *)
(* normalize_path and Path::extension are computed character by character. *)
(***************************************************************************)
EXTENDS Integers, Sequences, FiniteSets, TLC

\* The longest list of test cases a YAML test file holds.
MaxCases == 2

\* The number of successive calls of generate_tests.
MaxRuns == 2

VARIABLES
    listing,    \* the input tree: directory path -> the names read_dir yields, in order
    sources,    \* the files of the input tree before the first call
    malformed,  \* the input files that do not deserialize into a YamlTestFile
    tests,      \* the case list every well-formed input file holds
    modInside,  \* whether generated_mod_path lies inside generated_dir_path
    genIsTestDir, \* whether generated_dir_path and test_dir_path name one directory
    startup,    \* the latest call's startup: was the directory present, remove, create
    genExists,  \* whether the directory generated_dir_path exists
    genFiles,   \* the generated files: identifier -> the items appended so far
    modExists,  \* whether the file generated_mod_path exists
    modFile,    \* the lines of the mod file
    pc,         \* "idle", "traverse" (inside traverse) or "done" (generate_tests returned)
    stack,      \* the ReadDir iterators of the active traverse calls, innermost last
    result,     \* what generate_tests returned
    calls,      \* the calls made on the factory and the generators during this run
    run,        \* the number of calls of generate_tests so far
    prevOk,     \* whether the previous call returned Ok
    prevFiles,  \* genFiles when the previous call returned
    prevMod     \* modFile when the previous call returned

\* The arguments of generate_tests and the content of the input files.
inputVars == <<sources, malformed, tests, modInside, genIsTestDir>>

\* The state of the test generator.
generatorVars == <<listing, inputVars, startup, genExists, genFiles, modExists,
                   modFile, pc, stack, result, calls, run, prevOk, prevFiles, prevMod>>

VARIABLES
    givenDescription, \* the argument of sanitize_description
    sanitized,        \* what sanitize_description returned for it
    resanitized,      \* what sanitize_description returned for that result
    sanPc             \* "given", "once" or "twice"

sanitizeVars == <<givenDescription, sanitized, resanitized, sanPc>>

VARIABLES
    dataDir,          \* the data loader's directory: the file names read_dir yields, in order
    adf,              \* args.adf || args.adf_uri.is_some()
    loaderPc,         \* the step of main that comes next, or "done"
    test_data_files,  \* what read_data_files returned to main
    mongodOps,        \* the operations sent to the mongod, in order
    adfOps,           \* the commands sent to ADF, in order
    loaderResult,     \* what main returned
    panicked          \* whether an unreachable!() was reached

loaderVars == <<dataDir, adf, loaderPc, test_data_files, mongodOps, adfOps,
                loaderResult, panicked>>

vars == <<generatorVars, sanitizeVars, loaderVars>>

----------------------------------------------------------------------------
(* Strings *)

\* str::replace: every non-overlapping match of pat, left to right.
RECURSIVE Replace(_, _, _)
Replace(s, pat, rep) ==
    IF Len(s) < Len(pat) THEN s
    ELSE IF SubSeq(s, 1, Len(pat)) = pat
         THEN rep \o Replace(SubSeq(s, Len(pat) + 1, Len(s)), pat, rep)
         ELSE <<s[1]>> \o Replace(Tail(s), pat, rep)

Contains(s, c) == \E i \in 1..Len(s) : s[i] = c

LastIndexOf(s, c) ==
    IF Contains(s, c) THEN CHOOSE i \in 1..Len(s) :
                               s[i] = c /\ \A j \in (i + 1)..Len(s) : s[j] # c
    ELSE 0

\* PathBuf::join / DirEntry::path
Join(dir, name) == dir \o <<"/">> \o name

FileName(path) == SubSeq(path, LastIndexOf(path, "/") + 1, Len(path))

\* Path::extension: what follows the last '.' of the file name; nothing when the
\* name has no '.' or only a leading one (None is modelled as the empty sequence).
Extension(path) ==
    LET name == FileName(path)
        k == LastIndexOf(name, ".")
    IN IF k <= 1 THEN <<>> ELSE SubSeq(name, k + 1, Len(name))

----------------------------------------------------------------------------
(* The input tree *)

\* test_dir_path
TestDirPath == <<".", ".", "/", "t", "e", "s", "t", "s">>

NameA == <<"a">>
NameB == <<"b", ".", "y", "m", "l">>
NameAB == <<"a", "_", "b", ".", "y", "m", "l">>
NameC == <<"c", ".", "y", "a", "m", "l">>
NameD == <<"d", ".", "t", "x", "t">>

DirA == Join(TestDirPath, NameA)
FileB == Join(DirA, NameB)
FileAB == Join(TestDirPath, NameAB)
FileC == Join(TestDirPath, NameC)
FileD == Join(TestDirPath, NameD)

\* The orders in which read_dir may yield the names S of the root directory: by
\* name, and the reverse of that.
RootNames == <<NameA, NameAB, NameC, NameD>>
Reverse(s) == [i \in 1..Len(s) |-> s[Len(s) + 1 - i]]
Orders(S) ==
    LET InS(n) == n \in S
        byName == SelectSeq(RootNames, InS)
    IN {byName, Reverse(byName)}

\* The paths of the entries of directory dir.
Entries(dir) == {Join(dir, listing[dir][i]) : i \in 1..Len(listing[dir])}

IsDir(path) == path \in DOMAIN listing

AllFiles == {p \in UNION {Entries(d) : d \in DOMAIN listing} : ~IsDir(p)}

Yml == <<"y", "m", "l">>
Yaml == <<"y", "a", "m", "l">>

\* ext == Some("yml") || ext == Some("yaml")
IsYamlFile(path) == Extension(path) = Yml \/ Extension(path) = Yaml

\* Every file an input tree of the model may hold, and those of them traverse
\* takes for YAML files.
CandidateFiles == {FileB, FileAB, FileC, FileD}
YamlFiles == {p \in CandidateFiles : IsYamlFile(p)}

Eligible == AllFiles \cap YamlFiles

\* A test case: YamlTestCase { description, skip_reason, .. }; "None" is Option::None.
Description == <<"a", " ", "b">>
Reason == "flaky"
Cases == [description : {Description}, skip_reason : {"None", Reason}]

\* The case lists of the model: at most one case carries a skip_reason.
CaseLists ==
    {l \in UNION {[1..n -> Cases] : n \in 0..MaxCases} :
        Cardinality({i \in DOMAIN l : l[i].skip_reason # "None"}) <= 1}

----------------------------------------------------------------------------
(* Errors *)

Ok == [tag |-> "Ok", what |-> "", path |-> <<>>, causes |-> <<>>]
NoResult == [tag |-> "none", what |-> "", path |-> <<>>, causes |-> <<>>]
Err(tag, what, path) == [tag |-> tag, what |-> what, path |-> path, causes |-> <<>>]
Io(what, path) == Err("Io", what, path)
Multiple(errs) == [tag |-> "Multiple", what |-> "", path |-> <<>>, causes |-> errs]

----------------------------------------------------------------------------
(* normalize_path, write_mod_entry and the generators *)

normalize_path(path) ==
    LET s1 == Replace(path, <<".", ".", "/", "t", "e", "s", "t", "s", "/">>, <<>>)
        s2 == Replace(s1, <<".", ".", "/", "t", "e", "s", "t", "s", "\\">>, <<>>)
        s3 == Replace(s2, <<"/">>, <<"_">>)
        s4 == Replace(s3, <<"\\", "\\">>, <<"_">>)
        s5 == Replace(s4, <<"\\">>, <<"_">>)
    IN Replace(s5, <<".", "y", "m", "l">>, <<>>)

\* sanitize_description
sanitize_description(description) ==
    LET d1 == Replace(Replace(Replace(Replace(Replace(Replace(Replace(Replace(
                  description, <<" ">>, <<"_">>), <<"-">>, <<"_">>), <<"(">>, <<"_">>),
                  <<")">>, <<"_">>), <<"'">>, <<"_">>), <<",">>, <<"_">>),
                  <<".">>, <<"_">>), <<";">>, <<"_">>)
        d2 == Replace(d1, <<"=", ">">>, <<"a", "r", "r", "o", "w">>)
        d3 == Replace(d2, <<"$">>, <<"d", "o", "l", "l", "a", "r", "_", "s", "i", "g", "n">>)
        d4 == Replace(d3, <<"/">>, <<"o", "r">>)
        d5 == Replace(d4, <<"?">>,
                      <<"q", "u", "e", "s", "t", "i", "o", "n", "_", "m", "a", "r", "k">>)
        d6 == Replace(d5, <<"=">>, <<"e", "q", "u", "a", "l", "s">>)
        d7 == Replace(d6, <<"*">>, <<"s", "t", "a", "r">>)
    IN Replace(d7, <<"|">>, <<"p", "i", "p", "e", "_">>)

\* normalize_path of every candidate file.
NormalizedPath == [p \in CandidateFiles |-> normalize_path(p)]

\* sanitize_description of the description the cases carry.
SanitizedName == [d \in {Description} |-> sanitize_description(d)]

\* The lines of the mod file: the mod_header template, and "pub mod <id>;".
Preamble == [kind |-> "preamble", id |-> <<>>]
ModLine(id) == [kind |-> "mod", id |-> id]

write_mod_entry(mod, id) == Append(mod, ModLine(id))

\* Path::canonicalize of a path relative to the working directory "/w/x".
Canonicalize(path) == <<"/", "w">> \o SubSeq(path, 3, Len(path))

\* What a generator appends to a generated file.
Header(path) ==
    [kind |-> "header", path |-> path, name |-> <<>>, index |-> 0, reason |-> "None"]
Ignored(name, reason) ==
    [kind |-> "ignored", path |-> <<>>, name |-> name, index |-> 0, reason |-> reason]
Asserting(name, index) ==
    [kind |-> "assert", path |-> <<>>, name |-> name, index |-> index, reason |-> "None"]

\* The sample generator's test for one case: ignore_body_template for a skipped
\* case, sample_test_body (tests.get(index)) otherwise.
generate_test_case(index, test_case) ==
    LET sanitized_name == SanitizedName[test_case.description]
    IN IF test_case.skip_reason # "None"
       THEN Ignored(sanitized_name, test_case.skip_reason)
       ELSE Asserting(sanitized_name, index)

\* One call on the factory or on a generator: its arguments (the input file, and for
\* generate_test_case the index and the case) and whether it returned Ok.
NoCase == [description |-> <<>>, skip_reason |-> "None"]
Call(op, path, index, test_case, ok) ==
    [op |-> op, path |-> path, index |-> index, test_case |-> test_case, ok |-> ok]

Fault(at) == [at |-> at, index |-> 0]
BodyFault(index) == [at |-> "body", index |-> index]

\* The loop of step 5 without the ? operator: a failed generate_test_case call is
\* remembered and the loop goes on to the next case.
RECURSIVE GenerateTestCasesKeepsGoing(_, _, _, _)
GenerateTestCasesKeepsGoing(path, cases, index, fault) ==
    IF index >= Len(cases)
    THEN [items |-> <<>>, calls |-> <<>>, ok |-> TRUE]
    ELSE LET rest == GenerateTestCasesKeepsGoing(path, cases, index + 1, fault)
             failed == fault = BodyFault(index)
         IN [items |-> (IF failed THEN <<>>
                        ELSE <<generate_test_case(index, cases[index + 1])>>) \o rest.items,
             calls |-> <<Call("generate_test_case", path, index, cases[index + 1], ~failed)>>
                       \o rest.calls,
             ok |-> rest.ok /\ ~failed]

\* Step 5 of generate_test_file: the loop over parsed_test_file.tests.iter().enumerate()
\* from position index on. Under BodyFault(i) the generate_test_case call for case i
\* returns Err, and the ? operator leaves the loop.
RECURSIVE GenerateTestCases(_, _, _, _)
GenerateTestCases(path, cases, index, fault) ==
    IF index >= Len(cases)
    THEN [items |-> <<>>, calls |-> <<>>, ok |-> TRUE]
    ELSE IF fault = BodyFault(index)
    THEN [items |-> <<>>,
          calls |-> <<Call("generate_test_case", path, index, cases[index + 1], FALSE)>>,
          ok |-> FALSE]
    ELSE LET rest == GenerateTestCases(path, cases, index + 1, fault)
         IN [items |-> <<generate_test_case(index, cases[index + 1])>> \o rest.items,
             calls |-> <<Call("generate_test_case", path, index, cases[index + 1], TRUE)>>
                       \o rest.calls,
             ok |-> rest.ok]

----------------------------------------------------------------------------
(* TestGenerator::generate_test_file *)

\* What can go wrong while one input file is processed: the factory does not know
\* the file's kind, an I/O operation fails, or a generator call returns Err.
FileFaults(path) ==
    {Fault(at) : at \in {"none", "unknown", "mod_entry", "create", "canonicalize",
                         "header", "open"}}
    \cup (IF path \in malformed THEN {} ELSE {BodyFault(i) : i \in 0..(Len(tests) - 1)})

Outcome(mod, gen, log, res) == [mod |-> mod, gen |-> gen, calls |-> log, res |-> res]

\* OpenOptions::new().create(true).truncate(true).open(..) in the place of
\* append(true): a file that is there is emptied.
OpenTruncate(gen, id) == (id :> <<>>) @@ gen

\* OpenOptions::new().create(true).append(true).open(..): the file is created when
\* missing and kept as it is otherwise.
OpenAppend(gen, id) == IF id \in DOMAIN gen THEN gen ELSE (id :> <<>>) @@ gen

\* The mod file and the generated files after generate_test_file(original_path,
\* normalized_path, ..), the generator calls it made and what it returned.
generate_test_file(original_path, normalized_path, fault, mod, gen) ==
    IF fault.at = "mod_entry"
    THEN Outcome(mod, gen, <<>>, Io("write_mod_entry", original_path))
    ELSE
    LET mod1 == write_mod_entry(mod, normalized_path)
    IN IF fault.at = "create"
       THEN Outcome(mod1, gen, <<>>, Io("create_test_file", original_path))
       ELSE
    LET gen1 == OpenAppend(gen, normalized_path)
    IN IF fault.at = "canonicalize"
       THEN Outcome(mod1, gen1, <<>>, Io("canonicalize", original_path))
       ELSE IF fault.at = "header"
       THEN Outcome(mod1, gen1,
                    <<Call("generate_test_file_header", original_path, 0, NoCase, FALSE)>>,
                    Io("write_header", original_path))
       ELSE
    LET gen2 == [gen1 EXCEPT ![normalized_path] =
                     Append(@, Header(Canonicalize(original_path)))]
        log2 == <<Call("generate_test_file_header", original_path, 0, NoCase, TRUE)>>
    IN IF fault.at = "open"
       THEN Outcome(mod1, gen2,
                    log2 \o <<Call("parse_yaml", original_path, 0, NoCase, FALSE)>>,
                    Io("open_test_file", original_path))
       ELSE IF original_path \in malformed
       THEN Outcome(mod1, gen2,
                    log2 \o <<Call("parse_yaml", original_path, 0, NoCase, FALSE)>>,
                    Err("CannotDeserializeYaml", "parse_yaml", original_path))
       ELSE
    LET body == GenerateTestCases(original_path, tests, 0, fault)
        gen3 == [gen2 EXCEPT ![normalized_path] = @ \o body.items]
    IN Outcome(mod1, gen3,
               log2 \o <<Call("parse_yaml", original_path, 0, NoCase, TRUE)>> \o body.calls,
               IF body.ok THEN Ok ELSE Io("write_test_case", original_path))

\* The branch of traverse for a YAML file: create_test_generator, normalize_path,
\* generate_test_file.
ProcessYamlFile(path, fault, mod, gen) ==
    IF fault.at = "unknown"
    THEN Outcome(mod, gen, <<Call("create_test_generator", path, 0, NoCase, FALSE)>>,
                 Err("UnknownTestType", "create_test_generator", path))
    ELSE LET out == generate_test_file(path, NormalizedPath[path], fault, mod, gen)
         IN Outcome(out.mod, out.gen,
                    <<Call("create_test_generator", path, 0, NoCase, TRUE)>> \o out.calls,
                    out.res)

----------------------------------------------------------------------------
(* generate_tests *)

\* Before the first call no startup has happened.
NoStartup == [present |-> FALSE, remove |-> TRUE, create |-> TRUE]

\* sanitize_description is not being called on its own.
SanitizeIdle ==
    /\ givenDescription = <<>>
    /\ sanitized = <<>>
    /\ resanitized = <<>>
    /\ sanPc = "idle"

\* The data loader is not running.
LoaderIdle ==
    /\ dataDir = <<>>
    /\ adf = FALSE
    /\ loaderPc = "idle"
    /\ test_data_files = <<>>
    /\ mongodOps = <<>>
    /\ adfOps = <<>>
    /\ loaderResult = [tag |-> "none", step |-> "", path |-> <<>>]
    /\ panicked = FALSE

Init ==
    /\ \E chosen \in SUBSET {NameA, NameAB, NameC, NameD} :
         \E order \in Orders(chosen) :
            listing = IF NameA \in chosen
                      THEN (TestDirPath :> order) @@ (DirA :> <<NameB>>)
                      ELSE (TestDirPath :> order)
    /\ sources = AllFiles
    /\ malformed \in SUBSET Eligible
    /\ tests \in CaseLists
    /\ modInside \in BOOLEAN
    /\ genIsTestDir \in BOOLEAN
    /\ startup = NoStartup
    /\ genExists = genIsTestDir
    /\ genFiles = <<>>
    /\ modExists = FALSE
    /\ modFile = <<>>
    /\ pc = "idle"
    /\ stack = <<>>
    /\ result = NoResult
    /\ calls = <<>>
    /\ run = 0
    /\ prevOk = FALSE
    /\ prevFiles = <<>>
    /\ prevMod = <<>>
    /\ SanitizeIdle
    /\ LoaderIdle

\* An input tree without any directory: test_dir_path is missing.
NoDirs == [d \in {} |-> <<>>]

\* The startup with fs::create_dir_all in the place of fs::create_dir: creating a
\* directory that is still there succeeds.
StartupCreateDirAll(removeFails, createFails) ==
    LET removed == genExists /\ ~removeFails
        created == ~createFails
    IN [present |-> genExists,
        remove |-> removed,
        create |-> created,
        genExists |-> (genExists /\ ~removed) \/ created,
        genFiles |-> IF removed THEN <<>> ELSE genFiles,
        modExists |-> modExists /\ ~(removed /\ modInside),
        modFile |-> IF removed /\ modInside THEN <<>> ELSE modFile,
        listing |-> IF genIsTestDir /\ (removed \/ ~genExists)
                    THEN (IF created THEN (TestDirPath :> <<>>) ELSE NoDirs)
                    ELSE listing]

\* fs::remove_dir_all(generated_dir_path) then fs::create_dir(generated_dir_path):
\* the two results and what is on disk afterwards. Removing a missing directory
\* fails; creating a directory that is still there fails.
Startup(removeFails, createFails) ==
    LET removed == genExists /\ ~removeFails
        created == (~genExists \/ removed) /\ ~createFails
    IN [present |-> genExists,
        remove |-> removed,
        create |-> created,
        genExists |-> (genExists /\ ~removed) \/ created,
        genFiles |-> IF removed THEN <<>> ELSE genFiles,
        modExists |-> modExists /\ ~(removed /\ modInside),
        modFile |-> IF removed /\ modInside THEN <<>> ELSE modFile,
        listing |-> IF genIsTestDir /\ (removed \/ ~genExists)
                    THEN (IF created THEN (TestDirPath :> <<>>) ELSE NoDirs)
                    ELSE listing]

\* The results of the two calls, as the match of generate_tests sees them.
StartupResults(st) == [present |-> st.present, remove |-> st.remove, create |-> st.create]

\* The match without its (Err, Err) arm: the create failure alone is returned.
StartupErrorCreateOnly(st) == Io("create_generated_dir", <<>>)

\* The error generate_tests returns when create_dir failed.
StartupError(st) ==
    IF st.remove
    THEN Io("create_generated_dir", <<>>)
    ELSE Multiple(<<Io("delete_generated_dir", <<>>), Io("create_generated_dir", <<>>)>>)

CanStart == pc \in {"idle", "done"} /\ run < MaxRuns

\* What every call of generate_tests does first.
Begin ==
    /\ run' = run + 1
    /\ calls' = <<>>
    /\ prevOk' = (result.tag = "Ok")
    /\ prevFiles' = IF result.tag = "Ok" THEN genFiles ELSE <<>>
    /\ prevMod' = IF result.tag = "Ok" THEN modFile ELSE <<>>
    /\ UNCHANGED <<inputVars, sanitizeVars, loaderVars>>

Return(res) ==
    /\ pc' = "done"
    /\ stack' = <<>>
    /\ result' = res

\* generate_tests with the mod file opened, and the mod_header written, ahead of the
\* match on (remove, create).
StartupFailsAfterOpeningMod ==
    /\ CanStart
    /\ \E removeFails, createFails \in BOOLEAN :
         LET st == Startup(removeFails, createFails)
         IN /\ ~st.create
            /\ startup' = StartupResults(st)
            /\ listing' = st.listing
            /\ genExists' = st.genExists
            /\ genFiles' = st.genFiles
            /\ modExists' = TRUE
            /\ modFile' = Append(st.modFile, Preamble)
            /\ Return(StartupError(st))
    /\ Begin

\* generate_tests returns at the match on (remove, create).
StartupFails ==
    /\ CanStart
    /\ \E removeFails, createFails \in BOOLEAN :
         LET st == Startup(removeFails, createFails)
         IN /\ ~st.create
            /\ startup' = StartupResults(st)
            /\ listing' = st.listing
            /\ genExists' = st.genExists
            /\ genFiles' = st.genFiles
            /\ modExists' = st.modExists
            /\ modFile' = st.modFile
            /\ Return(StartupError(st))
    /\ Begin

\* generate_tests returns because the mod file cannot be opened.
OpenModFails ==
    /\ CanStart
    /\ \E removeFails \in BOOLEAN :
         LET st == Startup(removeFails, FALSE)
         IN /\ st.create
            /\ startup' = StartupResults(st)
            /\ listing' = st.listing
            /\ genExists' = st.genExists
            /\ genFiles' = st.genFiles
            /\ modExists' = st.modExists
            /\ modFile' = st.modFile
            /\ Return(Io("open_mod_file", <<>>))
    /\ Begin

\* generate_tests returns because read_dir(test_dir_path) fails; the mod file was
\* opened (created when missing) and the mod_header written to it.
ReadTestDirFails ==
    /\ CanStart
    /\ \E removeFails \in BOOLEAN :
         LET st == Startup(removeFails, FALSE)
         IN /\ st.create
            /\ startup' = StartupResults(st)
            /\ listing' = st.listing
            /\ genExists' = st.genExists
            /\ genFiles' = st.genFiles
            /\ modExists' = TRUE
            /\ modFile' = Append(st.modFile, Preamble)
            /\ Return(Io("read_test_dir", <<>>))
    /\ Begin

\* generate_tests up to its call of traverse(test_dir, ..).
StartTraverse ==
    /\ CanStart
    /\ \E removeFails \in BOOLEAN :
         LET st == Startup(removeFails, FALSE)
         IN /\ st.create
            /\ startup' = StartupResults(st)
            /\ listing' = st.listing
            /\ genExists' = st.genExists
            /\ genFiles' = st.genFiles
            /\ modExists' = TRUE
            /\ modFile' = Append(st.modFile, Preamble)
    /\ pc' = "traverse"
    /\ stack' = <<[dir |-> TestDirPath, pos |-> 1]>>
    /\ result' = NoResult
    /\ Begin

----------------------------------------------------------------------------
(* traverse *)

Top == stack[Len(stack)]
HasEntry == pc = "traverse" /\ Top.pos <= Len(listing[Top.dir])

\* entry.path() of the entry the innermost iterator yields next.
EntryPath == Join(Top.dir, listing[Top.dir][Top.pos])

\* The stack once the innermost iterator has yielded its entry.
Advanced == [stack EXCEPT ![Len(stack)].pos = @ + 1]

fsVars == <<genExists, genFiles, modExists, modFile>>
prevVars == <<prevOk, prevFiles, prevMod>>

\* What traverse neither reads to decide nor writes: the arguments, the input tree,
\* what generate_tests did before calling it, and the state of the other programs.
traverseFrame == <<inputVars, listing, startup, run, prevVars, sanitizeVars, loaderVars>>

\* Reading the entry or its file type fails.
EntryFails ==
    /\ HasEntry
    /\ \E what \in {"open_entry", "file_type"} : Return(Io(what, Top.dir))
    /\ UNCHANGED <<traverseFrame, fsVars, calls>>

\* read_dir on a subdirectory fails and traverse, having noted the error, goes on
\* with the next entry.
ReadSubDirFailsKeepsGoing ==
    /\ HasEntry
    /\ IsDir(EntryPath)
    /\ result' = Io("read_subdir", EntryPath)
    /\ stack' = Advanced
    /\ UNCHANGED <<traverseFrame, fsVars, pc, calls>>

\* The entry is a directory and read_dir on it fails.
ReadSubDirFails ==
    /\ HasEntry
    /\ IsDir(EntryPath)
    /\ Return(Io("read_subdir", EntryPath))
    /\ UNCHANGED <<traverseFrame, fsVars, calls>>

\* The entry is a directory: traverse(sub_dir, ..) is called.
EnterDir ==
    /\ HasEntry
    /\ IsDir(EntryPath)
    /\ stack' = Append(Advanced, [dir |-> EntryPath, pos |-> 1])
    /\ UNCHANGED <<traverseFrame, fsVars, pc, result, calls>>

\* The entry is a file with extension yml or yaml.
VisitYamlFile ==
    /\ HasEntry
    /\ ~IsDir(EntryPath)
    /\ EntryPath \in YamlFiles
    /\ \E fault \in FileFaults(EntryPath) :
         LET out == ProcessYamlFile(EntryPath, fault, modFile, genFiles)
         IN /\ modFile' = out.mod
            /\ genFiles' = out.gen
            /\ calls' = calls \o out.calls
            /\ IF out.res = Ok
               THEN /\ stack' = Advanced
                    /\ UNCHANGED <<pc, result>>
               ELSE Return(out.res)
    /\ UNCHANGED <<traverseFrame, genExists, modExists>>

\* The entry is any other file: nothing is done with it.
SkipOtherFile ==
    /\ HasEntry
    /\ ~IsDir(EntryPath)
    /\ EntryPath \notin YamlFiles
    /\ stack' = Advanced
    /\ UNCHANGED <<traverseFrame, fsVars, pc, result, calls>>

\* The innermost iterator is exhausted: this traverse returns Ok(()), and with the
\* outermost one generate_tests returns.
EndOfDir ==
    /\ pc = "traverse"
    /\ Top.pos > Len(listing[Top.dir])
    /\ IF Len(stack) = 1
       THEN Return(Ok)
       ELSE /\ stack' = SubSeq(stack, 1, Len(stack) - 1)
            /\ UNCHANGED <<pc, result>>
    /\ UNCHANGED <<traverseFrame, fsVars, calls>>

Next ==
    \/ StartupFails
    \/ OpenModFails
    \/ ReadTestDirFails
    \/ StartTraverse
    \/ EntryFails
    \/ ReadSubDirFails
    \/ EnterDir
    \/ VisitYamlFile
    \/ SkipOtherFile
    \/ EndOfDir

Spec == Init /\ [][Next]_vars

\* generate_tests is not being called.
GeneratorIdle ==
    /\ listing = (TestDirPath :> <<>>)
    /\ sources = {}
    /\ malformed = {}
    /\ tests = <<>>
    /\ modInside = TRUE
    /\ genIsTestDir = FALSE
    /\ startup = NoStartup
    /\ genExists = FALSE
    /\ genFiles = <<>>
    /\ modExists = FALSE
    /\ modFile = <<>>
    /\ pc = "idle"
    /\ stack = <<>>
    /\ result = NoResult
    /\ calls = <<>>
    /\ run = 0
    /\ prevOk = FALSE
    /\ prevFiles = <<>>
    /\ prevMod = <<>>

----------------------------------------------------------------------------
(* sanitize_description called on its own *)

\* The longest description given to sanitize_description.
MaxLen == 2

\* A letter, a digit, '_' and the characters sanitize_description looks for.
DescriptionChars ==
    {"a", "7", "_", " ", "-", "(", ")", "'", ",", ".", ";", "$", "/", "?", "=", "*",
     "|", ">"}

Descriptions == UNION {[1..n -> DescriptionChars] : n \in 0..MaxLen}

SanitizeInit ==
    /\ GeneratorIdle
    /\ LoaderIdle
    /\ givenDescription \in Descriptions
    /\ sanitized = <<>>
    /\ resanitized = <<>>
    /\ sanPc = "given"

\* sanitize_description(description)
SanitizeOnce ==
    /\ sanPc = "given"
    /\ sanitized' = sanitize_description(givenDescription)
    /\ sanPc' = "once"
    /\ UNCHANGED <<givenDescription, resanitized, generatorVars, loaderVars>>

\* sanitize_description applied to what it returned.
SanitizeAgain ==
    /\ sanPc = "once"
    /\ resanitized' = sanitize_description(sanitized)
    /\ sanPc' = "twice"
    /\ UNCHANGED <<givenDescription, sanitized, generatorVars, loaderVars>>

SanitizeNext ==
    \/ SanitizeOnce
    \/ SanitizeAgain

SanitizeSpec == SanitizeInit /\ [][SanitizeNext]_vars

----------------------------------------------------------------------------
(* The data loader: data-loader/src/main.rs *)

\* The most files the test data directory holds.
MaxFiles == 2

\* TestDataEntry: collection and view are Options (some), a view's definition is one
\* too; docs says whether the collection has documents, indexes whether it has any.
NoCollection == [some |-> FALSE, name |-> "", docs |-> FALSE, indexes |-> FALSE]
CollectionData(name, docs, indexes) ==
    [some |-> TRUE, name |-> name, docs |-> docs, indexes |-> indexes]
NoView == [some |-> FALSE, name |-> "", definition |-> FALSE]
ViewData(name, definition) == [some |-> TRUE, name |-> name, definition |-> definition]
TestDataEntry(collection, view, schema) ==
    [collection |-> collection, view |-> view, schema |-> schema]

\* The files a test data directory of the model may hold.
DataC == <<"c", ".", "y", "m", "l">>
DataE == <<"e", ".", "y", "m", "l">>
DataV == <<"v", ".", "j", "s", "o", "n">>
DataW == <<"w", ".", "y", "a", "m", "l">>
DataBoth == <<"b", ".", "y", "m", "l">>
DataNeither == <<"n", ".", "j", "s", "o", "n">>
DataMixed == <<"m", ".", "y", "a", "m", "l">>
DataBad == <<"x", ".", "y", "m", "l">>
DataTxt == <<"t", ".", "t", "x", "t">>
DataNoExt == <<"R", "E", "A", "D", "M", "E">>

DataNames == {DataC, DataE, DataV, DataW, DataBoth, DataNeither, DataMixed, DataBad,
              DataTxt, DataNoExt}

\* What is in each file: whether it deserializes into a TestDataFile, and its dataset.
\* c: a collection with documents, indexes and a schema; e: a collection without
\* documents, indexes or schema; v: a view with view_on and pipeline and a schema;
\* w: a view without definition or schema; b: an entry with a collection and a view;
\* n: an entry with neither; m: a good entry followed by one with both.
Parses == [n \in DataNames |-> n # DataBad]
Dataset ==
    [n \in DataNames |->
        CASE n = DataC -> <<TestDataEntry(CollectionData("c", TRUE, TRUE), NoView, TRUE)>>
          [] n = DataE -> <<TestDataEntry(CollectionData("e", FALSE, FALSE), NoView, FALSE)>>
          [] n = DataV -> <<TestDataEntry(NoCollection, ViewData("v", TRUE), TRUE)>>
          [] n = DataW -> <<TestDataEntry(NoCollection, ViewData("w", FALSE), FALSE)>>
          [] n = DataBoth ->
                 <<TestDataEntry(CollectionData("c", TRUE, FALSE), ViewData("v", TRUE), TRUE)>>
          [] n = DataNeither -> <<TestDataEntry(NoCollection, NoView, TRUE)>>
          [] n = DataMixed ->
                 <<TestDataEntry(CollectionData("c", TRUE, FALSE), NoView, FALSE),
                   TestDataEntry(CollectionData("e", TRUE, FALSE), ViewData("w", FALSE), FALSE)>>
          [] OTHER -> <<>>]

Json == <<"j", "s", "o", "n">>

\* The directory listings of the model: up to MaxFiles different files, in any order.
DataDirs ==
    {d \in UNION {[1..n -> DataNames] : n \in 0..MaxFiles} :
        \A i, j \in DOMAIN d : i # j => d[i] # d[j]}

\* What main returns.
LoaderOk == [tag |-> "Ok", step |-> "", path |-> <<>>]
LoaderErr(tag, step, path) == [tag |-> tag, step |-> step, path |-> path]

\* The filter of read_data_files with only the entries that name nothing counted.
InvalidEntryNeitherOnly(entry) == ~entry.collection.some /\ ~entry.view.some

\* The filter of read_data_files: entry.collection.is_some() == entry.view.is_some()
InvalidEntry(entry) == entry.collection.some = entry.view.some

\* An I/O failure inside read_data_files: of read_dir, of the index-th directory
\* entry, or of File::open on the index-th file.
ReadFault(at, index) == [at |-> at, index |-> index]
ReadFaults(dir) ==
    {ReadFault("none", 0), ReadFault("read_dir", 0)}
    \cup {ReadFault(at, i) : at \in {"entry", "open"}, i \in 1..Len(dir)}

ReadResult(res, files) == [res |-> res, files |-> files]

\* The loop of read_data_files with a file that does not deserialize, or that has a
\* bad entry, skipped like a file of another extension.
RECURSIVE ReadFromSkipsBadFiles(_, _, _, _)
ReadFromSkipsBadFiles(dir, i, files, fault) ==
    IF i > Len(dir) THEN ReadResult(LoaderOk, files)
    ELSE IF fault = ReadFault("entry", i)
    THEN ReadResult(LoaderErr("FileSystem", "read", dir[i]), <<>>)
    ELSE
    LET path == dir[i]
        ext == Extension(path)
    IN IF ext \notin {Yml, Yaml, Json}
       THEN ReadFromSkipsBadFiles(dir, i + 1, files, fault)
       ELSE IF fault = ReadFault("open", i)
       THEN ReadResult(LoaderErr("FileSystem", "read", path), <<>>)
       ELSE IF \/ ~Parses[path]
               \/ \E k \in 1..Len(Dataset[path]) : InvalidEntry(Dataset[path][k])
       THEN ReadFromSkipsBadFiles(dir, i + 1, files, fault)
       ELSE ReadFromSkipsBadFiles(dir, i + 1, Append(files, Dataset[path]), fault)

\* The loop of read_data_files from the i-th directory entry on.
RECURSIVE ReadFrom(_, _, _, _)
ReadFrom(dir, i, files, fault) ==
    IF i > Len(dir) THEN ReadResult(LoaderOk, files)
    ELSE IF fault = ReadFault("entry", i)
    THEN ReadResult(LoaderErr("FileSystem", "read", dir[i]), <<>>)
    ELSE
    LET path == dir[i]
        ext == Extension(path)
    IN IF ext \notin {Yml, Yaml, Json}
       THEN ReadFrom(dir, i + 1, files, fault)
       ELSE IF fault = ReadFault("open", i)
       THEN ReadResult(LoaderErr("FileSystem", "read", path), <<>>)
       ELSE IF ~Parses[path]
       THEN ReadResult(LoaderErr(IF ext = Json THEN "SerdeJson" ELSE "SerdeYaml",
                                 "read", path), <<>>)
       ELSE IF \E k \in 1..Len(Dataset[path]) : InvalidEntry(Dataset[path][k])
       THEN ReadResult(LoaderErr("InvalidViewOrCollectionDataEntry", "read", path), <<>>)
       ELSE ReadFrom(dir, i + 1, Append(files, Dataset[path]), fault)

read_data_files(dir, fault) ==
    IF fault.at = "read_dir"
    THEN ReadResult(LoaderErr("FileSystem", "read", <<>>), <<>>)
    ELSE ReadFrom(dir, 1, <<>>, fault)

\* for tdf in test_data_files { for entry in tdf.dataset { .. } }: the entries in
\* the order the loops take them.
RECURSIVE EntriesOf(_)
EntriesOf(files) == IF files = <<>> THEN <<>> ELSE Head(files) \o EntriesOf(Tail(files))

\* An operation on the mongod, or a command run on ADF.
DbOp(op, name) == [op |-> op, name |-> name]

DropEntry(entry) ==
    (IF entry.collection.some THEN <<DbOp("drop", entry.collection.name)>>
     ELSE IF entry.view.some THEN <<DbOp("drop", entry.view.name)>>
     ELSE <<>>)
    \o <<DbOp("drop", "__sql_schemas")>>

LoadEntry(entry) ==
    IF entry.collection.some
    THEN (IF entry.collection.docs
          THEN <<DbOp("insert_many", entry.collection.name)>> ELSE <<>>)
         \o (IF entry.collection.indexes
             THEN <<DbOp("create_indexes", entry.collection.name)>> ELSE <<>>)
    ELSE IF entry.view.some /\ entry.view.definition
    THEN <<DbOp("create_view", entry.view.name)>>
    ELSE <<>>

\* The arm `_ => unreachable!(..)` of the match on (entry.collection, entry.view).
Unreachable(entry) ==
    ~ \/ entry.collection.some /\ ~entry.view.some
      \/ ~entry.collection.some /\ entry.view.some

\* The entries the schema loops take before one of them reaches unreachable!().
BeforePanic(entries) ==
    LET bad == {i \in 1..Len(entries) : Unreachable(entries[i])}
    IN IF bad = {} THEN entries
       ELSE SubSeq(entries, 1, (CHOOSE i \in bad : \A j \in bad : i <= j) - 1)

Panics(files) == \E i \in 1..Len(EntriesOf(files)) : Unreachable(EntriesOf(files)[i])

DatasourceName(entry) ==
    IF entry.collection.some THEN entry.collection.name ELSE entry.view.name

AdfSchemaEntry(entry) ==
    <<DbOp(IF entry.schema THEN "sqlSetSchema" ELSE "sqlGenerateSchema",
           DatasourceName(entry))>>

MongodSchemaEntry(entry) ==
    IF entry.schema THEN <<DbOp("insert_schema", DatasourceName(entry))>> ELSE <<>>

\* The operations of a loop over the entries, entry after entry; loop names the
\* function whose loop body is taken.
RECURSIVE OpsOf(_, _)
OpsOf(loop, entries) ==
    IF entries = <<>> THEN <<>>
    ELSE (CASE loop = "drop_collections" -> DropEntry(Head(entries))
            [] loop = "load_test_data" -> LoadEntry(Head(entries))
            [] loop = "set_schemas_in_adf" -> AdfSchemaEntry(Head(entries))
            [] loop = "set_schemas_in_mongod" -> MongodSchemaEntry(Head(entries)))
         \o OpsOf(loop, Tail(entries))

drop_collections(files) == OpsOf("drop_collections", EntriesOf(files))

load_test_data(files) == OpsOf("load_test_data", EntriesOf(files))

set_schemas_in_adf(files) ==
    OpsOf("set_schemas_in_adf", BeforePanic(EntriesOf(files)))

set_schemas_in_mongod(files) ==
    OpsOf("set_schemas_in_mongod", BeforePanic(EntriesOf(files)))

LoaderInit ==
    /\ GeneratorIdle
    /\ SanitizeIdle
    /\ dataDir \in DataDirs
    /\ adf \in BOOLEAN
    /\ loaderPc = "connect"
    /\ test_data_files = <<>>
    /\ mongodOps = <<>>
    /\ adfOps = <<>>
    /\ loaderResult = [tag |-> "none", step |-> "", path |-> <<>>]
    /\ panicked = FALSE

loaderFrame == <<dataDir, adf, generatorVars, sanitizeVars>>

LoaderReturn(res) ==
    /\ loaderPc' = "done"
    /\ loaderResult' = res

\* Step 1: Client::with_uri_str(mdb_uri).await?
ConnectMongod ==
    /\ loaderPc = "connect"
    /\ \/ loaderPc' = "read" /\ UNCHANGED loaderResult
       \/ LoaderReturn(LoaderErr("Mongo", "connect", <<>>))
    /\ UNCHANGED <<loaderFrame, test_data_files, mongodOps, adfOps, panicked>>

\* Step 2: read_data_files(args.test_data_directory)?
ReadDataFiles ==
    /\ loaderPc = "read"
    /\ \E fault \in ReadFaults(dataDir) :
         LET read == read_data_files(dataDir, fault)
         IN IF read.res = LoaderOk
            THEN /\ test_data_files' = read.files
                 /\ loaderPc' = "drop"
                 /\ UNCHANGED loaderResult
            ELSE /\ LoaderReturn(read.res)
                 /\ UNCHANGED test_data_files
    /\ UNCHANGED <<loaderFrame, mongodOps, adfOps, panicked>>

\* Step 3: drop_collections(..).await? The first done operations succeed; unless
\* they are all of them, the next one fails.
DropCollections ==
    /\ loaderPc = "drop"
    /\ LET ops == drop_collections(test_data_files)
       IN \E done \in 0..Len(ops) :
            /\ mongodOps' = mongodOps \o SubSeq(ops, 1, done)
            /\ IF done = Len(ops)
               THEN loaderPc' = "load" /\ UNCHANGED loaderResult
               ELSE LoaderReturn(LoaderErr("Mongo", "drop", <<>>))
    /\ UNCHANGED <<loaderFrame, test_data_files, adfOps, panicked>>

\* Step 4 with the error of load_test_data returned at once, nothing dropped.
LoadTestDataNoRollback ==
    /\ loaderPc = "load"
    /\ LET ops == load_test_data(test_data_files)
       IN \E done \in 0..Len(ops) :
            /\ mongodOps' = mongodOps \o SubSeq(ops, 1, done)
            /\ IF done = Len(ops)
               THEN loaderPc' = "schema" /\ UNCHANGED loaderResult
               ELSE LoaderReturn(LoaderErr("Mongo", "load", <<>>))
    /\ UNCHANGED <<loaderFrame, test_data_files, adfOps, panicked>>

\* Step 4: load_test_data(..).await, and when it fails drop_collections(..).await?
\* before the error is returned.
LoadTestData ==
    /\ loaderPc = "load"
    /\ LET ops == load_test_data(test_data_files)
           drops == drop_collections(test_data_files)
       IN \E done \in 0..Len(ops) :
            IF done = Len(ops)
            THEN /\ mongodOps' = mongodOps \o ops
                 /\ loaderPc' = "schema"
                 /\ UNCHANGED loaderResult
            ELSE \E dropped \in 0..Len(drops) :
                   /\ mongodOps' = mongodOps \o SubSeq(ops, 1, done)
                                              \o SubSeq(drops, 1, dropped)
                   /\ LoaderReturn(LoaderErr("Mongo",
                                             IF dropped = Len(drops) THEN "load"
                                             ELSE "drop_loaded", <<>>))
    /\ UNCHANGED <<loaderFrame, test_data_files, adfOps, panicked>>

\* Steps 5 and 6 with the adf flag or an adf_uri: connect to ADF, set_schemas_in_adf.
SetSchemasInAdf ==
    /\ loaderPc = "schema"
    /\ adf
    /\ \/ /\ LoaderReturn(LoaderErr("Mongo", "connect_adf", <<>>))
          /\ UNCHANGED <<adfOps, panicked>>
       \/ LET ops == set_schemas_in_adf(test_data_files)
          IN \E done \in 0..Len(ops) :
               /\ adfOps' = adfOps \o SubSeq(ops, 1, done)
               /\ IF done < Len(ops)
                  THEN /\ LoaderReturn(LoaderErr("Mongo", "schema", <<>>))
                       /\ UNCHANGED panicked
                  ELSE IF Panics(test_data_files)
                  THEN /\ LoaderReturn(LoaderErr("panic", "schema", <<>>))
                       /\ panicked' = TRUE
                  ELSE /\ LoaderReturn(LoaderOk)
                       /\ UNCHANGED panicked
    /\ UNCHANGED <<loaderFrame, test_data_files, mongodOps>>

\* Step 5 without them: set_schemas_in_mongod.
SetSchemasInMongod ==
    /\ loaderPc = "schema"
    /\ ~adf
    /\ LET ops == set_schemas_in_mongod(test_data_files)
       IN \E done \in 0..Len(ops) :
            /\ mongodOps' = mongodOps \o SubSeq(ops, 1, done)
            /\ IF done < Len(ops)
               THEN /\ LoaderReturn(LoaderErr("Mongo", "schema", <<>>))
                    /\ UNCHANGED panicked
               ELSE IF Panics(test_data_files)
               THEN /\ LoaderReturn(LoaderErr("panic", "schema", <<>>))
                    /\ panicked' = TRUE
               ELSE /\ LoaderReturn(LoaderOk)
                    /\ UNCHANGED panicked
    /\ UNCHANGED <<loaderFrame, test_data_files, adfOps>>

LoaderNext ==
    \/ ConnectMongod
    \/ ReadDataFiles
    \/ DropCollections
    \/ LoadTestData
    \/ SetSchemasInAdf
    \/ SetSchemasInMongod

LoaderSpec == LoaderInit /\ [][LoaderNext]_vars

----------------------------------------------------------------------------
(* What a run did, read from the calls it made and from what it returned *)

CallsOf(op, path) ==
    LET Is(c) == c.op = op /\ c.path = path
    IN SelectSeq(calls, Is)

\* The input files the run handed to the factory, in order.
ProcessedOrder ==
    LET IsFactoryCall(c) == c.op = "create_test_generator"
        factoryCalls == SelectSeq(calls, IsFactoryCall)
    IN [i \in 1..Len(factoryCalls) |-> factoryCalls[i].path]

Discovered == {ProcessedOrder[i] : i \in 1..Len(ProcessedOrder)}

\* The run returned the failure of one input file: the factory did not know it, or
\* creating its output file, canonicalizing its path, emitting its header, parsing
\* it or emitting one of its bodies failed.
PerFileFailure ==
    \/ result.tag \in {"UnknownTestType", "CannotDeserializeYaml"}
    \/ /\ result.tag = "Io"
       /\ result.what \in {"create_test_file", "canonicalize", "write_header",
                           "open_test_file", "write_test_case"}

\* The run returned any other failure: of the startup, of the mod file or of a
\* directory.
RunFatal == result.tag \notin {"none", "Ok"} /\ ~PerFileFailure

Finished == pc = "done"
Succeeded == pc = "done" /\ result = Ok

\* The input files each error of the result names.
CausePaths ==
    IF result.tag = "Multiple"
    THEN {result.causes[i].path : i \in 1..Len(result.causes)}
    ELSE IF result.tag \in {"none", "Ok"} THEN {} ELSE {result.path}

\* The tests of a generated file: its items other than headers.
TestsOf(items) ==
    LET IsTest(it) == it.kind # "header"
    IN SelectSeq(items, IsTest)

HeadersOf(items) ==
    LET IsHeader(it) == it.kind = "header"
    IN SelectSeq(items, IsHeader)

ModIds == {modFile[i].id : i \in {j \in 1..Len(modFile) : modFile[j].kind = "mod"}}

----------------------------------------------------------------------------
(* The claims *)

\* C1: when a run ends with the failure of one eligible file, every other eligible
\* file of the tree was still processed and (when it is well-formed) its generated
\* file is present.
C1_FailureIsolated ==
    (Finished /\ PerFileFailure) =>
        \A f \in Eligible \ {result.path} :
            /\ f \in Discovered
            /\ f \notin malformed => NormalizedPath[f] \in DOMAIN genFiles

\* C2: the run result is Ok iff no eligible file fails and nothing run-fatal
\* happened; when eligible files fail, the returned error names every one of them.
C2_AllCausesReported ==
    Finished =>
        LET failing == (Eligible \cap malformed)
                       \cup (IF PerFileFailure THEN {result.path} ELSE {})
        IN /\ result = Ok <=> (failing = {} /\ ~RunFatal)
           /\ (failing # {} /\ ~RunFatal) => CausePaths = failing

\* C3: a second successful run over the same inputs, with the same arguments, leaves
\* every generated file and the mod file as the first successful run left them.
C3_Idempotent ==
    (Succeeded /\ prevOk) => (genFiles = prevFiles /\ modFile = prevMod)

\* C4: after a successful run the mod file is the preamble followed by exactly one
\* "pub mod" line per eligible file, in the order the files were processed, and
\* nothing else.
C4_IndexContent ==
    Succeeded =>
        /\ Discovered = Eligible
        /\ modFile = <<Preamble>> \o
               [i \in 1..Len(ProcessedOrder) |-> ModLine(NormalizedPath[ProcessedOrder[i]])]

\* C5: two different files discovered in one run never get the same identifier, and
\* a successful run leaves as many generated files as there are eligible inputs.
C5_Injective ==
    /\ \A f, g \in Discovered : f # g => NormalizedPath[f] # NormalizedPath[g]
    /\ Succeeded => Cardinality(DOMAIN genFiles) = Cardinality(Eligible)

\* C6: every identifier registered in the mod file or naming a generated file, for a
\* .yml or a .yaml input, contains no path separator and no '.'.
C6_IdentifierShape ==
    \A id \in ModIds \cup DOMAIN genFiles :
        ~Contains(id, "/") /\ ~Contains(id, "\\") /\ ~Contains(id, ".")

\* C7: in a run that no run-fatal failure stops, every file with extension yml or
\* yaml, at any depth, is processed exactly once; any other file is ignored: no
\* call, no generated file, no mod line and no error is about it.
C7_Discovery ==
    /\ (Finished /\ ~RunFatal) =>
           \A f \in Eligible : Len(CallsOf("create_test_generator", f)) = 1
    /\ \A f \in AllFiles \ Eligible :
           /\ \A i \in 1..Len(calls) : calls[i].path # f
           /\ NormalizedPath[f] \notin DOMAIN genFiles \cup ModIds
           /\ f \notin CausePaths

\* C8: in every generated file a successful run leaves, the header appears exactly
\* once and before every test, also when the identifiers of two inputs coincide.
C8_HeaderOnceFirst ==
    Succeeded =>
        \A id \in DOMAIN genFiles :
            /\ Len(HeadersOf(genFiles[id])) = 1
            /\ genFiles[id][1].kind = "header"

\* C9: for a file that parsed into N cases, generate_test_case is called for the
\* cases 0, 1, .. in their order, each call with the case's zero-based position as
\* index and that case; a failed call is the last one; and unless a call failed
\* there are exactly N calls.
C9_BodyOrder ==
    \A p \in Eligible :
        LET cs == CallsOf("generate_test_case", p)
        IN /\ cs # <<>> => CallsOf("parse_yaml", p) = <<Call("parse_yaml", p, 0, NoCase, TRUE)>>
           /\ Len(cs) <= Len(tests)
           /\ \A i \in 1..Len(cs) : cs[i].index = i - 1 /\ cs[i].test_case = tests[i]
           /\ \A i \in 1..(Len(cs) - 1) : cs[i].ok
           /\ CallsOf("parse_yaml", p) = <<Call("parse_yaml", p, 0, NoCase, TRUE)>> =>
                  \/ Len(cs) = Len(tests) /\ \A i \in 1..Len(cs) : cs[i].ok
                  \/ cs # <<>> /\ ~cs[Len(cs)].ok

\* C9 witness: a file with at least two cases whose call for case 0 succeeded and
\* whose call for case 1 failed, after which the run returned.
C9_Witness ==
    /\ Finished
    /\ \E p \in Eligible :
          /\ Len(tests) >= 2
          /\ CallsOf("generate_test_case", p) =
                 <<Call("generate_test_case", p, 0, tests[1], TRUE),
                   Call("generate_test_case", p, 1, tests[2], FALSE)>>

\* C10: after a successful run, for a file whose only skipped case is case k, the
\* generated file holds exactly one ignored test, with the reason, at position k
\* among its tests, and N-1 asserting tests, each reading its own zero-based index.
C10_SkippedCase ==
    Succeeded =>
        \A f \in Eligible : \A k \in 1..Len(tests) :
            (\A i \in 1..Len(tests) : (tests[i].skip_reason # "None") <=> (i = k)) =>
                LET body == TestsOf(genFiles[NormalizedPath[f]])
                IN /\ Len(body) = Len(tests)
                   /\ body[k].kind = "ignored" /\ body[k].reason = tests[k].skip_reason
                   /\ \A i \in 1..Len(tests) \ {k} :
                          body[i].kind = "assert" /\ body[i].index = i - 1

\* The latest call got past its startup: it reached the opening of the mod file.
PastStartup ==
    \/ pc = "traverse"
    \/ pc = "done" /\ ~(result.tag = "Multiple" \/ result.what = "create_generated_dir")

\* The latest call has just got past its startup: it failed to open the mod file or
\* to read test_dir_path, or traverse has not taken its first entry yet.
JustPastStartup ==
    \/ pc = "traverse" /\ stack = <<[dir |-> TestDirPath, pos |-> 1]>>
    \/ pc = "done" /\ result.what \in {"open_mod_file", "read_test_dir"}

\* C11: a call that finds no output directory and can create it gets past its
\* startup, and whenever a call gets past its startup the output directory exists
\* and holds no generated file: none of an earlier run is left in it.
C11_CleanStart ==
    /\ (run >= 1 /\ ~startup.present /\ startup.create) => PastStartup
    /\ JustPastStartup => (genExists /\ genFiles = <<>>)

\* C11 witness: a second call got past its startup after a first one returned Ok
\* and left generated files, and the output directory is empty.
C11_Witness ==
    /\ run = 2 /\ JustPastStartup /\ pc = "traverse"
    /\ startup.present /\ startup.remove /\ startup.create
    /\ prevOk /\ prevFiles # <<>>
    /\ genFiles = <<>>

\* C12: a call in which deleting the present output directory fails, or creating
\* the output directory fails, returns an error at once: the mod file is neither
\* created nor written, test_dir_path is not read, no call is made on the factory
\* and no generated file is created or changed.
C12_FatalStartup ==
    [][(run' = run + 1 /\ ((startup'.present /\ ~startup'.remove) \/ ~startup'.create)) =>
          /\ pc' = "done"
          /\ result'.tag \in {"Io", "Multiple"}
          /\ result'.what \notin {"open_mod_file", "read_test_dir"}
          /\ calls' = <<>>
          /\ modExists' => (modExists /\ modFile' = modFile)
          /\ \A id \in DOMAIN genFiles' :
                 id \in DOMAIN genFiles /\ genFiles'[id] = genFiles[id]]_vars

\* C12 witness: a second call could not delete the output directory a first call
\* had filled, and returned with the mod file and the generated files as they were.
C12_Witness ==
    /\ run = 2 /\ Finished
    /\ startup.present /\ ~startup.remove
    /\ prevOk /\ prevFiles # <<>>
    /\ genFiles = prevFiles /\ modFile = prevMod
    /\ calls = <<>>

\* C13: a call whose remove_dir_all and create_dir both fail returns
\* Error::Multiple of the delete failure then the create failure, both Io; a call
\* whose create_dir alone fails returns the Io create failure.
C13_AggregatedStartup ==
    (Finished /\ ~startup.create) =>
        IF startup.remove
        THEN result = Io("create_generated_dir", <<>>)
        ELSE /\ result.tag = "Multiple"
             /\ result.causes = <<Io("delete_generated_dir", <<>>),
                                  Io("create_generated_dir", <<>>)>>

\* C13 witness: a present output directory could not be deleted, so it could not
\* be created either, and the call returned the two failures together.
C13_Witness ==
    /\ Finished
    /\ startup.present /\ ~startup.remove /\ ~startup.create
    /\ result.tag = "Multiple" /\ Len(result.causes) = 2

\* C14: whenever a call has returned and the mod file exists, wherever it lies, the
\* mod file holds the preamble exactly once, as its first line: nothing an earlier
\* run wrote is left in it.
C14_IndexLifecycle ==
    (Finished /\ modExists) =>
        LET IsPreamble(l) == l = Preamble
        IN /\ Len(SelectSeq(modFile, IsPreamble)) = 1
           /\ modFile[1] = Preamble

\* C15: every file the input tree held before the first call is still in it,
\* whatever directories the arguments name, also an output directory that is the
\* input root.
C15_InputsKept == \A f \in sources : f \in AllFiles

\* The characters of a description that no Rust identifier may hold.
NotInIdentifiers == DescriptionChars \ {"a", "7", "_"}

\* C16: for a description of letters, digits, '_' and the characters
\* space - ( ) ' , . ; $ / ? = * | >, what sanitize_description returns holds
\* letters, digits and '_' only, "=>" becomes "arrow", and sanitizing the result
\* again changes nothing.
C16_UsableName ==
    /\ sanPc \in {"once", "twice"} =>
           /\ \A i \in 1..Len(sanitized) : sanitized[i] \notin NotInIdentifiers
           /\ givenDescription = <<"=", ">">> => sanitized = <<"a", "r", "r", "o", "w">>
    /\ sanPc = "twice" => resanitized = sanitized

\* read_data_files returned Ok to main.
ReadOk ==
    \/ loaderPc \in {"drop", "load", "schema"}
    \/ loaderPc = "done" /\ loaderResult.step \notin {"connect", "read"}

\* The entry names a collection or a view, and not both.
ExactlyOne(entry) == entry.collection.some # entry.view.some

\* The files of the directory read_data_files parses: those with extension yml, yaml
\* or json, in the directory's order.
DataFiles ==
    LET IsData(n) == Extension(n) \in {Yml, Yaml, Json}
    IN SelectSeq(dataDir, IsData)

\* C17: when read_data_files returns Ok it returns every data file of the directory,
\* and every entry of every one of them names exactly one of collection and view;
\* when it returns an error it returns no file; the error
\* InvalidViewOrCollectionDataEntry names a data file that parsed and has an entry
\* naming both or neither, every data file before it being good; and main never
\* reaches an unreachable!().
C17_EntryInvariant ==
    /\ ~panicked
    /\ loaderResult.tag # "panic"
    /\ ReadOk =>
           /\ test_data_files = [i \in 1..Len(DataFiles) |-> Dataset[DataFiles[i]]]
           /\ \A i \in 1..Len(test_data_files) : \A k \in 1..Len(test_data_files[i]) :
                  ExactlyOne(test_data_files[i][k])
    /\ (loaderPc = "done" /\ loaderResult.step = "read") => test_data_files = <<>>
    /\ loaderResult.tag = "InvalidViewOrCollectionDataEntry" =>
           \E i \in 1..Len(DataFiles) :
               /\ loaderResult.path = DataFiles[i]
               /\ Parses[DataFiles[i]]
               /\ \E k \in 1..Len(Dataset[DataFiles[i]]) : ~ExactlyOne(Dataset[DataFiles[i]][k])
               /\ \A j \in 1..(i - 1) :
                      /\ Parses[DataFiles[j]]
                      /\ \A k \in 1..Len(Dataset[DataFiles[j]]) :
                             ExactlyOne(Dataset[DataFiles[j]][k])

\* C17 witness: main returned Ok in ADF mode after set_schemas_in_adf ran its match
\* over a collection entry and a view entry.
C17_Witness ==
    /\ loaderPc = "done" /\ loaderResult = LoaderOk
    /\ adf /\ Len(adfOps) = 2
    /\ \E i, j \in 1..Len(test_data_files) :
          test_data_files[i][1].collection.some /\ test_data_files[j][1].view.some

\* C18: in ADF mode (the adf flag or an adf_uri) the mongod gets drops, documents
\* and indexes only: no view is created on it, whatever view_on and pipeline a view
\* entry carries.
C18_NoViewInAdfMode ==
    adf => \A i \in 1..Len(mongodOps) :
               mongodOps[i].op \in {"drop", "insert_many", "create_indexes"}

\* C19: when a call has returned, Ok or not, every module the mod file registers
\* has its generated file (with the mod file inside the output directory, so that
\* a run starts with an empty one).
C19_RegisteredAfterEmission ==
    (Finished /\ modInside) => \A id \in ModIds : id \in DOMAIN genFiles

\* The call returned because a directory, an entry or an entry's file type could
\* not be read.
DirFailure ==
    /\ result.tag = "Io"
    /\ result.what \in {"read_test_dir", "read_subdir", "open_entry", "file_type"}

\* C20: a failure to read the input root, a subdirectory, an entry or a file type
\* makes generate_tests return that error at once: the step that fails writes
\* nothing and calls nothing, no traverse is left with entries to take, nothing
\* happens after the return but a new call, and what was generated stays.
C20_DirFailureFatal ==
    /\ [](DirFailure => (pc = "done" /\ stack = <<>>))
    /\ [](DirFailure /\ result.what = "read_test_dir" => calls = <<>>)
    /\ [][(DirFailure' /\ run' = run) =>
              (pc = "traverse" /\ UNCHANGED <<fsVars, calls>>)]_vars
    /\ [][pc = "done" => run' = run + 1]_vars

\* C20 witness: inside the subdirectory a file type could not be read while the
\* root still had an eligible entry to take: the call returned, the mod file holds
\* what was written to it, and the root's file was not processed.
C20_Witness ==
    /\ Finished
    /\ result = Io("file_type", DirA)
    /\ FileAB \in Eligible \ Discovered
    /\ modExists /\ modFile = <<Preamble>>

\* s is t or the start of t.
IsPrefix(s, t) == Len(s) <= Len(t) /\ SubSeq(t, 1, Len(s)) = s

\* C21: once a call is past its startup, each of its steps leaves what the mod file
\* and every generated file held at their start and only adds at their end, also
\* when two input files share a generated file; and the mod_header is added at the
\* end of what the mod file held after the startup.
C21_AppendOnly ==
    /\ [][run' = run =>
              /\ IsPrefix(modFile, modFile')
              /\ \A id \in DOMAIN genFiles :
                     id \in DOMAIN genFiles' /\ IsPrefix(genFiles[id], genFiles'[id])]_vars
    /\ [][(run' = run + 1 /\ ~(startup'.remove /\ modInside)) =>
              IsPrefix(modFile, modFile')]_vars

\* C21 witness: a run returned Ok after a/b.yml and a_b.yml were both written to the
\* one generated file a_b, which holds the header and tests of the first followed by
\* the header and tests of the second.
C21_Witness ==
    /\ Succeeded
    /\ {FileB, FileAB} \subseteq Discovered
    /\ Len(tests) >= 1
    /\ Len(genFiles[NormalizedPath[FileB]]) = 2 * (1 + Len(tests))
    /\ genFiles[NormalizedPath[FileB]][2 + Len(tests)].kind = "header"

\* main returned because load_test_data failed.
LoadFailed == loaderPc = "done" /\ loaderResult.step \in {"load", "drop_loaded"}

\* C22: when load_test_data fails, after some of its operations, drop_collections
\* is run again over all the data files: the mongod got the drops of step 3, the
\* operations loaded before the failure and then the drops again, all of them unless
\* one of them failed; main returned an error; and no schema was written to ADF or
\* to the mongod.
C22_Rollback ==
    LoadFailed =>
        LET drops == drop_collections(test_data_files)
            after == SubSeq(mongodOps, Len(drops) + 1, Len(mongodOps))
        IN /\ loaderResult.tag = "Mongo"
           /\ adfOps = <<>>
           /\ \A i \in 1..Len(mongodOps) : mongodOps[i].op # "insert_schema"
           /\ IsPrefix(drops, mongodOps)
           /\ \E done \in 0..(Len(load_test_data(test_data_files)) - 1) :
              \E dropped \in 0..Len(drops) :
                  /\ after = SubSeq(load_test_data(test_data_files), 1, done)
                              \o SubSeq(drops, 1, dropped)
                  /\ (loaderResult.step = "load") <=> (dropped = Len(drops))

\* C22 witness: load_test_data failed after it had inserted documents, and every
\* collection or view and __sql_schemas were dropped again.
C22_Witness ==
    /\ LoadFailed /\ loaderResult.step = "load"
    /\ \E i \in 1..Len(mongodOps) : mongodOps[i].op = "insert_many"
    /\ Len(mongodOps) > 2 * Len(drop_collections(test_data_files))
    /\ mongodOps[Len(mongodOps)] = DbOp("drop", "__sql_schemas")

\* A data file of the directory does not deserialize or has an entry that names
\* both a collection and a view, or neither.
SomeBadDataFile ==
    \E i \in 1..Len(DataFiles) :
        \/ ~Parses[DataFiles[i]]
        \/ \E k \in 1..Len(Dataset[DataFiles[i]]) : ~ExactlyOne(Dataset[DataFiles[i]][k])

\* C23: nothing is sent to the mongod or to ADF before read_data_files has returned
\* Ok, that is with every data file of the directory read, parsed and validated;
\* when a file cannot be read, does not parse or has a bad entry, main returns an
\* error and nothing was sent at all.
C23_ValidateBeforeWrite ==
    /\ (mongodOps # <<>> \/ adfOps # <<>>) => (ReadOk /\ ~SomeBadDataFile)
    /\ (loaderPc = "done" /\ loaderResult.step = "read") =>
           (loaderResult.tag # "Ok" /\ mongodOps = <<>> /\ adfOps = <<>>)
    /\ (loaderPc = "done" /\ SomeBadDataFile) =>
           (loaderResult.step \in {"connect", "read"} /\ loaderResult.tag # "Ok")

\* C23 witness: the second file of the directory did not parse after a good first
\* one was read: main returned the error and nothing was sent to the mongod.
C23_Witness ==
    /\ loaderPc = "done"
    /\ dataDir = <<DataC, DataBad>>
    /\ loaderResult = LoaderErr("SerdeYaml", "read", DataBad)
    /\ mongodOps = <<>> /\ adfOps = <<>>

====
